---- MODULE Spec2Model ----
(***************************************************************************)
(* pyrfc6266: parsing of the Content-Disposition header (RFC 6266) and the *)
(* resolution of a filename from it, as implemented in                     *)
(* src/pyrfc6266/_main.py on top of the pyparsing combinators.             *)
(*                                                                         *)
(* A string is a sequence of code points (integers); positions are         *)
(* 1-based.  A combinator applied to (s, loc) yields a record              *)
(* [ok, loc, tok]: whether it matched, the position after the match and    *)
(* the token it returned.  An optional value (Python's None or a str) is   *)
(* a sequence of length at most one: None is <<>>, the string v is <<v>>.  *)
(***************************************************************************)
EXTENDS Integers, Sequences, FiniteSets, TLC

VARIABLES
    input,      \* the pieces the header under test was written from
    header,     \* the header value handed to the library
    enforce,    \* enforce_content_disposition_type of the call made
    pc,         \* "start", then the entry point that was called
    ret         \* what the call returned or raised

vars == <<input, header, enforce, pc, ret>>

(***************************************************************************)
(* Characters                                                              *)
(***************************************************************************)

\* The printable ASCII characters, code points 32..126 in order.  The grave
\* accent (96), which a string of this notation cannot hold, is spelled "grave".
Printable == <<
    " ", "!", "\"", "#", "$", "%", "&", "'", "(", ")", "*", "+", ",", "-", ".", "/",
    "0", "1", "2", "3", "4", "5", "6", "7", "8", "9", ":", ";", "<", "=", ">", "?",
    "@", "A", "B", "C", "D", "E", "F", "G", "H", "I", "J", "K", "L", "M", "N", "O",
    "P", "Q", "R", "S", "T", "U", "V", "W", "X", "Y", "Z", "[", "\\", "]", "^", "_",
    "grave", "a", "b", "c", "d", "e", "f", "g", "h", "i", "j", "k", "l", "m", "n", "o",
    "p", "q", "r", "s", "t", "u", "v", "w", "x", "y", "z", "{", "|", "}", "~" >>

\* The code point of a printable ASCII character.
Ord(c) == 31 + (CHOOSE i \in 1..Len(Printable) : Printable[i] = c)

\* The string (sequence of code points) spelled by a tuple of characters.
Str(cs) == [i \in 1..Len(cs) |-> Ord(cs[i])]

\* The set of code points of a tuple of characters.
CharSet(cs) == {Ord(cs[i]) : i \in 1..Len(cs)}

TAB == 9
LF == 10
CR == 13
SPACE == 32

SEMI == << Ord(";") >>
EQUALS == << Ord("=") >>
STAR == << Ord("*") >>
APOSTROPHE == << Ord("'") >>
PERCENT == << Ord("%") >>
DQUOTE == Ord("\"")
BACKSLASH == Ord("\\")
SLASH == Ord("/")
UNDERSCORE == Ord("_")

\* str.upper() and str.lower() on the ASCII letters.
Upper(c) == IF c >= Ord("a") /\ c <= Ord("z") THEN c - (Ord("a") - Ord("A")) ELSE c
Lower(c) == IF c >= Ord("A") /\ c <= Ord("Z") THEN c + (Ord("a") - Ord("A")) ELSE c
upper(s) == [i \in 1..Len(s) |-> Upper(s[i])]
lower(s) == [i \in 1..Len(s) |-> Lower(s[i])]

None == <<>>
Some(v) == <<v>>

(***************************************************************************)
(* The pyparsing combinators the grammar is written with                   *)
(***************************************************************************)

\* The characters every combinator skips before it matches (unless it sits
\* inside a Combine): pyparsing's default " \n\t\r".
DEFAULT_WHITE_CHARS == {SPACE, LF, TAB, CR}

Ok(loc, tok) == [ok |-> TRUE, loc |-> loc, tok |-> tok]
Fail == [ok |-> FALSE, loc |-> 0, tok |-> <<>>]

\* The first position from loc on, below maxloc, whose character is not in chars.
RECURSIVE RunEnd(_, _, _, _)
RunEnd(s, loc, chars, maxloc) ==
    IF loc < maxloc /\ loc <= Len(s) /\ s[loc] \in chars
    THEN RunEnd(s, loc + 1, chars, maxloc)
    ELSE loc

\* A variant of preParse that skips no white space.
preParse_no_skip(s, loc) == loc

\* ParserElement.preParse: skip the white space before a match.
preParse(s, loc) == RunEnd(s, loc, DEFAULT_WHITE_CHARS, Len(s) + 1)

\* str.expandtabs(), which parse_string applies to its input: a tab becomes the
\* spaces up to the next multiple of 8 columns, a line break restarts the columns.
RECURSIVE expandtabs_from(_, _, _)
expandtabs_from(s, i, col) ==
    IF i > Len(s) THEN <<>>
    ELSE IF s[i] = TAB
         THEN [k \in 1..(8 - (col % 8)) |-> SPACE] \o expandtabs_from(s, i + 1, 0)
         ELSE <<s[i]>> \o expandtabs_from(s, i + 1,
                                          IF s[i] \in {LF, CR} THEN 0 ELSE (col + 1) % 8)
expandtabs(s) == expandtabs_from(s, 1, 0)

\* Literal(lit) at loc, white space not skipped.
Literal(s, loc, lit) ==
    IF loc + Len(lit) - 1 <= Len(s) /\ SubSeq(s, loc, loc + Len(lit) - 1) = lit
    THEN Ok(loc + Len(lit), lit)
    ELSE Fail

\* CaselessLiteral(lit) at loc: the text is compared upper-cased and the token
\* returned is the literal as the grammar spells it.
CaselessLiteral(s, loc, lit) ==
    IF loc + Len(lit) - 1 <= Len(s)
       /\ upper(SubSeq(s, loc, loc + Len(lit) - 1)) = upper(lit)
    THEN Ok(loc + Len(lit), lit)
    ELSE Fail

\* A run from loc to end taken as a Word: it fails when it is shorter than
\* minLen, and when max is given and the run goes on.
word_match(s, loc, chars, minLen, max, end) ==
    IF end - loc < minLen \/ end = loc THEN Fail
    ELSE IF max > 0 /\ end <= Len(s) /\ s[end] \in chars THEN Fail
    ELSE Ok(end, SubSeq(s, loc, end - 1))

\* Word(chars, min, max, exact) at loc (0 for max or exact: not given): the
\* longest run of chars, of at most max (or exact) characters.
Word(s, loc, chars, min, max, exact) ==
    word_match(s, loc, chars, IF exact > 0 THEN exact ELSE min, max,
               RunEnd(s, loc, chars,
                      IF exact > 0 THEN loc + exact
                      ELSE IF max > 0 THEN loc + max ELSE Len(s) + 1))

\* MatchFirst (a | b): the first alternative that matches.
MatchFirst(a, b) == IF a.ok THEN a ELSE b

\* Optional(m) at loc: m if it matched, the empty match otherwise.
Optional(m, loc) == IF m.ok THEN m ELSE Ok(loc, <<>>)

\* The position of the quote that closes the quoted string whose content starts
\* at i, 0 if it is not closed: a backslash takes the next character with it
\* (any but a line feed), a bare line break is not allowed.
RECURSIVE QuotedEnd(_, _)
QuotedEnd(s, i) ==
    IF i > Len(s) THEN 0
    ELSE IF s[i] = DQUOTE THEN i
    ELSE IF s[i] = BACKSLASH
         THEN IF i + 1 <= Len(s) /\ s[i + 1] # LF THEN QuotedEnd(s, i + 2) ELSE 0
    ELSE IF s[i] \in {LF, CR} THEN 0
    ELSE QuotedEnd(s, i + 1)

\* The escape character removed: backslash x becomes x.
RECURSIVE Unescape(_, _)
Unescape(t, i) ==
    IF i > Len(t) THEN <<>>
    ELSE IF t[i] = BACKSLASH /\ i + 1 <= Len(t)
         THEN <<t[i + 1]>> \o Unescape(t, i + 2)
         ELSE <<t[i]>> \o Unescape(t, i + 1)

\* str.replace(esc_quote, quote_char): every backslash-quote left becomes a quote.
RECURSIVE ReplaceEscQuote(_, _)
ReplaceEscQuote(t, i) ==
    IF i > Len(t) THEN <<>>
    ELSE IF t[i] = BACKSLASH /\ i + 1 <= Len(t) /\ t[i + 1] = DQUOTE
         THEN <<DQUOTE>> \o ReplaceEscQuote(t, i + 2)
         ELSE <<t[i]>> \o ReplaceEscQuote(t, i + 1)

\* The quoted string from loc to its closing quote at end: the token is the
\* content, unquoted and unescaped.
quoted_match(s, loc, end) ==
    IF end = 0 THEN Fail
    ELSE Ok(end + 1, ReplaceEscQuote(Unescape(SubSeq(s, loc + 1, end - 1), 1), 1))

\* QuotedString(quote_char='"', esc_quote='\\"', esc_char="\\") at loc.
QuotedString(s, loc) ==
    IF loc <= Len(s) /\ s[loc] = DQUOTE
    THEN quoted_match(s, loc, QuotedEnd(s, loc + 1))
    ELSE Fail

(***************************************************************************)
(* The grammar                                                             *)
(***************************************************************************)

token_chars == CharSet(<<
    "!", "#", "$", "%", "&", "'", "*", "+", "-", ".", "0", "1", "2", "3", "4", "5",
    "6", "7", "8", "9", "A", "B", "C", "D", "E", "F", "G", "H", "I", "J", "K", "L",
    "M", "N", "O", "P", "Q", "R", "S", "T", "U", "V", "W", "X", "Y", "Z", "^", "_",
    "grave", "a", "b", "c", "d", "e", "f", "g", "h", "i", "j", "k", "l", "m", "n", "o",
    "p", "q", "r", "s", "t", "u", "v", "w", "x", "y", "z", "|", "~" >>)

token_chars_without_wildcard == CharSet(<<
    "!", "#", "$", "%", "&", "'", "+", "-", ".", "0", "1", "2", "3", "4", "5", "6",
    "7", "8", "9", "A", "B", "C", "D", "E", "F", "G", "H", "I", "J", "K", "L", "M",
    "N", "O", "P", "Q", "R", "S", "T", "U", "V", "W", "X", "Y", "Z", "^", "_", "grave",
    "a", "b", "c", "d", "e", "f", "g", "h", "i", "j", "k", "l", "m", "n", "o", "p",
    "q", "r", "s", "t", "u", "v", "w", "x", "y", "z", "|", "~" >>)

\* The characters of an extended value that stand for themselves.
attr_chars == CharSet(<<
    "!", "#", "$", "&", "+", "-", ".", "0", "1", "2", "3", "4", "5", "6", "7", "8",
    "9", "A", "B", "C", "D", "E", "F", "G", "H", "I", "J", "K", "L", "M", "N", "O",
    "P", "Q", "R", "S", "T", "U", "V", "W", "X", "Y", "Z", "^", "_", "grave", "a", "b",
    "c", "d", "e", "f", "g", "h", "i", "j", "k", "l", "m", "n", "o", "p", "q", "r",
    "s", "t", "u", "v", "w", "x", "y", "z", "|", "~" >>)

\* The characters of the language tag: pyparsing's alphas and the space.
language_chars == CharSet(<<
    "A", "B", "C", "D", "E", "F", "G", "H", "I", "J", "K", "L", "M", "N", "O", "P",
    "Q", "R", "S", "T", "U", "V", "W", "X", "Y", "Z", "a", "b", "c", "d", "e", "f",
    "g", "h", "i", "j", "k", "l", "m", "n", "o", "p", "q", "r", "s", "t", "u", "v",
    "w", "x", "y", "z", " " >>)

hex_chars == CharSet(<<
    "a", "b", "c", "d", "e", "f", "A", "B", "C", "D", "E", "F", "0", "1", "2", "3",
    "4", "5", "6", "7", "8", "9" >>)

UTF_8 == Str(<<"U", "T", "F", "-", "8">>)
ISO_8859_1 == Str(<<"I", "S", "O", "-", "8", "8", "5", "9", "-", "1">>)
INLINE == Str(<<"i", "n", "l", "i", "n", "e">>)
ATTACHMENT == Str(<<"a", "t", "t", "a", "c", "h", "m", "e", "n", "t">>)

\* token = Word(token_chars)
token(s, loc) == Word(s, preParse(s, loc), token_chars, 1, 0, 0)

\* The end of the longest prefix of the run loc..end-1 that ends in a character
\* other than the wildcard (loc if there is none).
RECURSIVE LastUnencoded(_, _, _)
LastUnencoded(s, loc, end) ==
    IF end <= loc THEN loc
    ELSE IF s[end - 1] \in token_chars_without_wildcard THEN end
    ELSE LastUnencoded(s, loc, end - 1)

regex_match(s, loc, end) == IF end > loc THEN Ok(end, SubSeq(s, loc, end - 1)) ELSE Fail

\* unencoded_token = Regex([token_chars]*[token_chars_without_wildcard])
unencoded_token(s, loc) ==
    regex_match(s, loc, LastUnencoded(s, loc, RunEnd(s, loc, token_chars, Len(s) + 1)))

\* value = token | QuotedString(...)
value(s, loc) == MatchFirst(token(s, loc), QuotedString(s, preParse(s, loc)))

\* The end of a parameter: the token is the "parm" result joined (the name and
\* the "=") and the "value" result.
parm_value(parm, v) ==
    IF v.ok THEN Ok(v.loc, [parm |-> parm, value |-> v.tok]) ELSE Fail

\* (name + Literal("=")) + value, after the name n and the match e of "=".
parm_equals(s, n, e) ==
    IF e.ok THEN parm_value(n.tok \o EQUALS, value(s, e.loc)) ELSE Fail

\* The first alternative of disp_ext_parm: unencoded_token "=" value.
plain_name(s, n) ==
    IF n.ok THEN parm_equals(s, n, Literal(s, preParse(s, n.loc), EQUALS)) ELSE Fail

plain_parm(s, loc) == plain_name(s, unencoded_token(s, preParse(s, loc)))

\* The second alternative: Combine(unencoded_token "*") "=" value; the Combine
\* skips the white space before it, and nothing may stand between the name and
\* its "*".
extended_star(s, n, w) ==
    IF w.ok
    THEN parm_equals(s, Ok(w.loc, n.tok \o STAR), Literal(s, preParse(s, w.loc), EQUALS))
    ELSE Fail

extended_name(s, n) == IF n.ok THEN extended_star(s, n, Literal(s, n.loc, STAR)) ELSE Fail

extended_parm(s, loc) == extended_name(s, unencoded_token(s, preParse(s, loc)))

\* disp_ext_parm (= disposition_parm): the first alternative that matches.
disp_ext_parm(s, loc) == MatchFirst(plain_parm(s, loc), extended_parm(s, loc))

\* disposition_type = CaselessLiteral("inline") | CaselessLiteral("attachment")
\* | disp_ext_type: the first alternative that matches, never reconsidered.
disposition_type(s, loc) ==
    MatchFirst(CaselessLiteral(s, preParse(s, loc), INLINE),
               MatchFirst(CaselessLiteral(s, preParse(s, loc), ATTACHMENT),
                          token(s, loc)))

\* ZeroOrMore(Literal(";") + disposition_parm) from loc: the parameters matched
\* and the position after the last one.
RECURSIVE disposition_parms(_, _, _)
parms_next(s, loc, acc, p) ==
    IF p.ok THEN disposition_parms(s, p.loc, Append(acc, p.tok)) ELSE Ok(loc, acc)

parms_semi(s, loc, acc, semi) ==
    IF semi.ok THEN parms_next(s, loc, acc, disp_ext_parm(s, semi.loc)) ELSE Ok(loc, acc)

disposition_parms(s, loc, acc) ==
    parms_semi(s, loc, acc, Literal(s, preParse(s, loc), SEMI))

NoParseResult == [ok |-> FALSE, type |-> <<>>, parm |-> <<>>, value |-> <<>>]

\* parse_all=True: after the grammar only white space may be left.
parser_string_end(s, t, ps, semi) ==
    IF preParse(s, semi.loc) > Len(s)
    THEN [ok |-> TRUE, type |-> t.tok,
          parm |-> [i \in 1..Len(ps.tok) |-> ps.tok[i].parm],
          value |-> [i \in 1..Len(ps.tok) |-> ps.tok[i].value]]
    ELSE NoParseResult

\* ... + Optional(";")
parser_optional_semi(s, t, ps) ==
    parser_string_end(s, t, ps,
                      Optional(Literal(s, preParse(s, ps.loc), SEMI), ps.loc))

\* disposition_type + ZeroOrMore(Literal(";") + disposition_parm) ...
parser_parms(s, t) ==
    IF t.ok THEN parser_optional_semi(s, t, disposition_parms(s, t.loc, <<>>))
    ELSE NoParseResult

parser_type(s) == parser_parms(s, disposition_type(s, 1))

\* parser.parse_string(header, parse_all=True): the "type" result and the
\* "parm" and "value" results in order, or the ParseException.
parser(instring) == parser_type(expandtabs(instring))

\* OneOrMore(Word(attr_chars) | Literal("%") + Word(hex, exact=2)) from loc: the
\* position where neither alternative matches any more.
RECURSIVE ext_octets_end(_, _)
octets_next(s, loc, m) == IF m.ok THEN ext_octets_end(s, m.loc) ELSE loc

percent_hex(s, p) == IF p.ok THEN Word(s, p.loc, hex_chars, 1, 0, 2) ELSE Fail

ext_octets_end(s, loc) ==
    octets_next(s, loc, MatchFirst(Word(s, loc, attr_chars, 1, 0, 0),
                                   percent_hex(s, Literal(s, loc, PERCENT))))

NoExtValue == [ok |-> FALSE, encoding |-> <<>>, value |-> <<>>]

\* The "value" result from start to end, and parse_all=True.
ext_end(s, enc, start, end) ==
    IF end > start /\ preParse(s, end) > Len(s)
    THEN [ok |-> TRUE, encoding |-> enc.tok, value |-> SubSeq(s, start, end - 1)]
    ELSE NoExtValue

ext_octets(s, enc, q2) ==
    IF q2.ok THEN ext_end(s, enc, q2.loc, ext_octets_end(s, q2.loc)) ELSE NoExtValue

\* ... + Literal("'") + OneOrMore(...)
ext_quote2(s, enc, language) == ext_octets(s, enc, Literal(s, language.loc, APOSTROPHE))

\* ... + Optional(Word(alphas + " ", min=1, max=3)) ...
ext_language(s, enc, q1) ==
    IF q1.ok
    THEN ext_quote2(s, enc, Optional(Word(s, q1.loc, language_chars, 1, 3, 0), q1.loc))
    ELSE NoExtValue

\* ... + Literal("'") ...
ext_quote1(s, enc) == ext_language(s, enc, Literal(s, enc.loc, APOSTROPHE))

\* (CaselessLiteral("UTF-8") | CaselessLiteral("ISO-8859-1") | Empty()): the
\* "encoding" result, empty when Empty() matched.  The Combine skips the white
\* space before it; nothing may stand between its parts.
ext_encoding(s, start) ==
    ext_quote1(s, MatchFirst(CaselessLiteral(s, start, UTF_8),
                             MatchFirst(CaselessLiteral(s, start, ISO_8859_1),
                                        Ok(start, <<>>))))

ext_start(s) == ext_encoding(s, preParse(s, 1))

\* ext_value.parse_string(value, parse_all=True): the "encoding" result (empty
\* when the result has no "encoding") and the "value" result joined, or the
\* ParseException.
ext_value(instring) == ext_start(expandtabs(instring))

(***************************************************************************)
(* urllib.parse.unquote and the two codecs                                 *)
(***************************************************************************)

\* The value of a hexadecimal digit.
HexVal(c) ==
    IF c >= Ord("0") /\ c <= Ord("9") THEN c - Ord("0")
    ELSE Upper(c) - Ord("A") + 10

\* unquote_to_bytes: "%" and two hexadecimal digits are one octet, any other
\* character is its own octet.
RECURSIVE unquote_to_bytes(_, _)
unquote_to_bytes(s, i) ==
    IF i > Len(s) THEN <<>>
    ELSE IF <<s[i]>> = PERCENT /\ i + 2 <= Len(s)
            /\ s[i + 1] \in hex_chars /\ s[i + 2] \in hex_chars
         THEN <<16 * HexVal(s[i + 1]) + HexVal(s[i + 2])>> \o unquote_to_bytes(s, i + 3)
         ELSE <<s[i]>> \o unquote_to_bytes(s, i + 1)

IsContinuation(b) == b >= 128 /\ b <= 191

UnicodeDecodeError == [ok |-> FALSE, str |-> <<>>]

\* bytes.decode("utf-8", "strict") from octet i on: the code points, or the
\* UnicodeDecodeError (overlong forms, surrogates, code points above U+10FFFF,
\* truncated or stray octets).
RECURSIVE utf_8_decode(_, _, _)
utf_8_decode(b, i, acc) ==
    IF i > Len(b) THEN [ok |-> TRUE, str |-> acc]
    ELSE LET c == b[i]
             lo == IF c = 224 THEN 160 ELSE IF c = 240 THEN 144 ELSE 128
             hi == IF c = 237 THEN 159 ELSE IF c = 244 THEN 143 ELSE 191
         IN  IF c < 128 THEN utf_8_decode(b, i + 1, Append(acc, c))
             ELSE IF c >= 194 /\ c <= 223
             THEN IF i + 1 <= Len(b) /\ IsContinuation(b[i + 1])
                  THEN utf_8_decode(b, i + 2,
                           Append(acc, (c - 192) * 64 + (b[i + 1] - 128)))
                  ELSE UnicodeDecodeError
             ELSE IF c >= 224 /\ c <= 239
             THEN IF i + 2 <= Len(b) /\ b[i + 1] >= lo /\ b[i + 1] <= hi
                     /\ IsContinuation(b[i + 2])
                  THEN utf_8_decode(b, i + 3,
                           Append(acc, (c - 224) * 4096 + (b[i + 1] - 128) * 64
                                       + (b[i + 2] - 128)))
                  ELSE UnicodeDecodeError
             ELSE IF c >= 240 /\ c <= 244
             THEN IF i + 3 <= Len(b) /\ b[i + 1] >= lo /\ b[i + 1] <= hi
                     /\ IsContinuation(b[i + 2]) /\ IsContinuation(b[i + 3])
                  THEN utf_8_decode(b, i + 4,
                           Append(acc, (c - 240) * 262144 + (b[i + 1] - 128) * 4096
                                       + (b[i + 2] - 128) * 64 + (b[i + 3] - 128)))
                  ELSE UnicodeDecodeError
             ELSE UnicodeDecodeError

\* unquote(string, encoding=encoding, errors="strict") for the two encodings the
\* grammar lets through: the octets decoded as UTF-8, or each octet as the code
\* point of the same number (ISO-8859-1).
unquote(string, encoding) ==
    IF encoding = lower(UTF_8) THEN utf_8_decode(unquote_to_bytes(string, 1), 1, <<>>)
    ELSE [ok |-> TRUE, str |-> unquote_to_bytes(string, 1)]

(***************************************************************************)
(* parse                                                                   *)
(***************************************************************************)

ContentDisposition(name, val) == [name |-> name, value |-> val]

\* A variant of INVALID_ISO8859_1_CHARACTERS without range(127, 160).
INVALID_ISO8859_1_CHARACTERS_c0_only == 0..31

\* set(bytes(list(range(32)) + list(range(127, 160))).decode("iso-8859-1"))
INVALID_ISO8859_1_CHARACTERS == (0..31) \cup (127..159)

Range(s) == {s[i] : i \in 1..Len(s)}

\* parm_str[:-1].lower(): the name without its "=", lower-cased.
parm_name(parm_str) == lower(SubSeq(parm_str, 1, Len(parm_str) - 1))

\* parm_str.endswith("*")
is_extended(name) == Len(name) > 0 /\ <<name[Len(name)]>> = STAR

\* "encoding" in parse_result_value
has_encoding(parse_result_value) == parse_result_value.encoding # <<>>

\* parm_str in seen_parms, parm_str being "".join(parm): the name as the header
\* spells it, and the "=".
is_seen(parm_str, seen_parms) == parm_str \in seen_parms

ParseException == [raised |-> TRUE, type |-> <<>>, params |-> <<>>]

\* The loop of parse over the (parm, value) pairs from pair i on, with the
\* parameters seen and the dispositions collected so far.
RECURSIVE parse_loop(_, _, _, _)

\* The end of an iteration on an extended parameter: its value decoded.
parse_decoded(parse_result, i, seen_parms, all_content_disposition, name, encoding, value_str) ==
    IF ~value_str.ok THEN ParseException
    ELSE IF encoding = lower(ISO_8859_1)
            /\ Range(value_str.str) \cap INVALID_ISO8859_1_CHARACTERS # {}
    THEN ParseException
    ELSE parse_loop(parse_result, i + 1, seen_parms,
                    Append(all_content_disposition,
                           ContentDisposition(name, value_str.str)))

\* An iteration on an extended parameter, its value parsed as an ext_value.
parse_extended(parse_result, i, seen_parms, all_content_disposition, name, parse_result_value) ==
    IF ~parse_result_value.ok THEN ParseException
    ELSE IF ~has_encoding(parse_result_value)
    THEN parse_loop(parse_result, i + 1, seen_parms, all_content_disposition)
    ELSE parse_decoded(parse_result, i, seen_parms, all_content_disposition, name,
                       lower(parse_result_value.encoding),
                       unquote(parse_result_value.value,
                               lower(parse_result_value.encoding)))

\* An iteration on a parameter not seen before.
parse_parm(parse_result, i, seen_parms, all_content_disposition, name) ==
    IF is_extended(name)
    THEN parse_extended(parse_result, i, seen_parms, all_content_disposition, name,
                        ext_value(parse_result.value[i]))
    ELSE parse_loop(parse_result, i + 1, seen_parms,
                    Append(all_content_disposition,
                           ContentDisposition(name, parse_result.value[i])))

parse_loop(parse_result, i, seen_parms, all_content_disposition) ==
    IF i > Len(parse_result.parm)
    THEN [raised |-> FALSE, type |-> lower(parse_result.type),
          params |-> all_content_disposition]
    ELSE IF is_seen(parse_result.parm[i], seen_parms) THEN ParseException
    ELSE parse_parm(parse_result, i, seen_parms \cup {parse_result.parm[i]},
                    all_content_disposition, parm_name(parse_result.parm[i]))

\* The body of parse after parser.parse_string.
parse_result_loop(parse_result) ==
    IF parse_result.ok THEN parse_loop(parse_result, 1, {}, <<>>) ELSE ParseException

\* parse(header): the disposition type and the dispositions found, or the
\* ParseException raised.
parse(h) == parse_result_loop(parser(h))

(***************************************************************************)
(* parse_filename                                                          *)
(***************************************************************************)

\* A variant of secure_filename without the first replace.
secure_filename_slash_only(filename) ==
    [i \in 1..Len(filename) |->
        IF filename[i] = SLASH THEN UNDERSCORE ELSE filename[i]]

\* filename.replace("\\", "_").replace("/", "_")
secure_filename(filename) ==
    [i \in 1..Len(filename) |->
        IF filename[i] \in {BACKSLASH, SLASH} THEN UNDERSCORE ELSE filename[i]]

\* A variant of allowed_content_dispositions without "inline".
allowed_content_dispositions_attachment_only == {ATTACHMENT}

\* allowed_content_dispositions = ["attachment", "inline"]
allowed_content_dispositions == {ATTACHMENT, INLINE}

FILENAME == Str(<<"f", "i", "l", "e", "n", "a", "m", "e">>)

\* str(i)
RECURSIVE Decimal(_)
Decimal(i) ==
    IF i < 10 THEN <<Ord("0") + i>>
    ELSE Decimal(i \div 10) \o <<Ord("0") + (i % 10)>>

\* The index of the first disposition named name, 0 if there is none.
RECURSIVE first_named(_, _, _)
first_named(all_content_disposition, name, j) ==
    IF j > Len(all_content_disposition) THEN 0
    ELSE IF all_content_disposition[j].name = name THEN j
    ELSE first_named(all_content_disposition, name, j + 1)

\* A variant of segment_names that tries the plain form first.
segment_names_plain_first(i) ==
    << FILENAME \o STAR \o Decimal(i), FILENAME \o STAR \o Decimal(i) \o STAR >>

\* [f"filename*{i}*", f"filename*{i}"]: the names tried for segment i, in order.
segment_names(i) ==
    << FILENAME \o STAR \o Decimal(i) \o STAR, FILENAME \o STAR \o Decimal(i) >>

\* The first disposition that bears the first of the names that any bears, 0 if
\* none bears any.
first_of_names(all_content_disposition, names) ==
    IF first_named(all_content_disposition, names[1], 1) # 0
    THEN first_named(all_content_disposition, names[1], 1)
    ELSE first_named(all_content_disposition, names[2], 1)

\* The end of range(1, 99999).
RANGE_STOP == 99999

\* The loop of combine_filename from segment i on.
RECURSIVE combine_from(_, _, _)
combine_found(all_content_disposition, filename, i, j) ==
    IF j # 0
    THEN combine_from(all_content_disposition,
                      filename \o all_content_disposition[j].value, i + 1)
    ELSE filename

combine_from(all_content_disposition, filename, i) ==
    IF i >= RANGE_STOP THEN filename
    ELSE combine_found(all_content_disposition, filename, i,
                       first_of_names(all_content_disposition, segment_names(i)))

normal_filename(content_disposition) == content_disposition.value

combine_filename(content_disposition, all_content_disposition) ==
    combine_from(all_content_disposition, content_disposition.value, 1)

\* A variant of header_handlers that tries "filename" before "filename*".
header_handlers_plain_first == <<
    [name |-> FILENAME, handler |-> "normal_filename"],
    [name |-> FILENAME \o STAR, handler |-> "normal_filename"],
    [name |-> FILENAME \o STAR \o Decimal(0) \o STAR, handler |-> "combine_filename"],
    [name |-> FILENAME \o STAR \o Decimal(0), handler |-> "combine_filename"] >>

\* header_handlers: the (name, handler) pairs in the order they are tried.
header_handlers == <<
    [name |-> FILENAME \o STAR, handler |-> "normal_filename"],
    [name |-> FILENAME, handler |-> "normal_filename"],
    [name |-> FILENAME \o STAR \o Decimal(0) \o STAR, handler |-> "combine_filename"],
    [name |-> FILENAME \o STAR \o Decimal(0), handler |-> "combine_filename"] >>

handler_func(handler, content_disposition, all_content_disposition) ==
    IF handler = "normal_filename" THEN normal_filename(content_disposition)
    ELSE combine_filename(content_disposition, all_content_disposition)

\* Python's truth value of an optional string: neither None nor "".
Truthy(filename) == filename # None /\ filename[1] # <<>>

\* The two nested loops of parse_filename, at handler h and disposition j, with
\* the filename assigned so far.
RECURSIVE handlers_loop(_, _, _, _)

\* filename = handler_func(content_disposition); if filename: break
handler_assigned(all_content_disposition, h, j, filename) ==
    IF Truthy(filename) THEN filename
    ELSE handlers_loop(all_content_disposition, h, j + 1, filename)

handlers_loop(all_content_disposition, h, j, filename) ==
    IF h > Len(header_handlers) THEN filename
    ELSE IF j > Len(all_content_disposition)
    THEN IF Truthy(filename) THEN filename
         ELSE handlers_loop(all_content_disposition, h + 1, 1, filename)
    ELSE IF all_content_disposition[j].name = header_handlers[h].name
    THEN handler_assigned(all_content_disposition, h, j,
             Some(handler_func(header_handlers[h].handler,
                               all_content_disposition[j],
                               all_content_disposition)))
    ELSE handlers_loop(all_content_disposition, h, j + 1, filename)

\* The filename the handlers resolve from the dispositions, before it is secured.
resolved_filename(all_content_disposition) ==
    handlers_loop(all_content_disposition, 1, 1, None)

\* if filename: filename = secure_filename(filename)
secured(filename) ==
    IF Truthy(filename) THEN Some(secure_filename(filename[1])) ELSE filename

\* content_disposition_type not in allowed_content_dispositions
is_allowed(content_disposition_type) ==
    content_disposition_type \in allowed_content_dispositions

\* The body of parse_filename after parse(header).
filename_of(parsed, enforce_content_disposition_type) ==
    IF parsed.raised THEN [raised |-> TRUE, filename |-> None]
    ELSE IF enforce_content_disposition_type /\ ~is_allowed(parsed.type)
    THEN [raised |-> FALSE, filename |-> None]
    ELSE [raised |-> FALSE, filename |-> secured(resolved_filename(parsed.params))]

\* parse_filename(header, enforce_content_disposition_type): the filename, None
\* or the ParseException of parse.
parse_filename(h, enforce_content_disposition_type) ==
    filename_of(parse(h), enforce_content_disposition_type)

(***************************************************************************)
(* The headers under test                                                  *)
(*                                                                         *)
(* A header is written from pieces: a disposition type, parameters (a      *)
(* name, extended or not, and a value), the white space in the gaps        *)
(* between them, and an optional closing ";".  gaps[1] leads the header;   *)
(* parameter k has five gaps, before its ";", before its name, before its  *)
(* "*", before its "=" and before its value; the last gap ends the header. *)
(***************************************************************************)

\* A value written as a token.
TokenValue(text) ==
    [quoted |-> FALSE, text |-> text, charset |-> <<>>, language |-> <<>>,
     octets |-> <<>>, wellformed |-> FALSE]

\* A value written as a quoted string with the given content.
QuotedValue(text) ==
    [quoted |-> TRUE, text |-> text, charset |-> <<>>, language |-> <<>>,
     octets |-> <<>>, wellformed |-> FALSE]

RECURSIVE Concat(_)
Concat(ss) == IF ss = <<>> THEN <<>> ELSE Head(ss) \o Concat(Tail(ss))

\* An extended value charset'language'octets, each octet a piece [txt, byte]:
\* the text that spells it and the octet it stands for.
ExtValue(charset, language, octets) ==
    [quoted |-> FALSE,
     text |-> charset \o APOSTROPHE \o language \o APOSTROPHE
              \o Concat([i \in 1..Len(octets) |-> octets[i].txt]),
     charset |-> charset, language |-> language,
     octets |-> [i \in 1..Len(octets) |-> octets[i].byte],
     wellformed |-> octets # <<>>]

Parm(name, ext, val) == [name |-> name, ext |-> ext, val |-> val]

NoGaps(n) == [i \in 1..(2 + 5 * n) |-> <<>>]

Input(fam, type, parms) ==
    [fam |-> fam, type |-> type, parms |-> parms, semi |-> FALSE,
     gaps |-> NoGaps(Len(parms))]

ValueText(val) == IF val.quoted THEN <<DQUOTE>> \o val.text \o <<DQUOTE>> ELSE val.text

\* The name of a parameter as the header spells it, with its "*".
FullName(p) == IF p.ext THEN p.name \o STAR ELSE p.name

RenderParm(in, k) ==
    LET p == in.parms[k]
        g == [i \in 1..5 |-> in.gaps[1 + 5 * (k - 1) + i]]
    IN  g[1] \o SEMI \o g[2] \o p.name \o (IF p.ext THEN g[3] \o STAR ELSE <<>>)
        \o g[4] \o EQUALS \o g[5] \o ValueText(p.val)

\* The header value the pieces spell.
Render(in) ==
    in.gaps[1] \o in.type
    \o Concat([k \in 1..Len(in.parms) |-> RenderParm(in, k)])
    \o (IF in.semi THEN SEMI ELSE <<>>)
    \o in.gaps[Len(in.gaps)]

\* The sequences of at most n elements of S.
SeqsUpTo(S, n) == UNION {[1..k -> S] : k \in 0..n}

\* The sub-sequences of at most n elements of the tuple t, in its order and in
\* the reverse order.
RECURSIVE Pick(_, _)
Pick(t, idx) == IF idx = <<>> THEN <<>> ELSE <<t[Head(idx)]>> \o Pick(t, Tail(idx))
Ascending(m, n) ==
    {s \in SeqsUpTo(1..m, n) : \A i \in 1..(Len(s) - 1) : s[i] < s[i + 1]}
Reverse(s) == [i \in 1..Len(s) |-> s[Len(s) + 1 - i]]
SubSeqsUpTo(t, n) ==
    {Pick(t, s) : s \in Ascending(Len(t), n)}
    \cup {Pick(t, Reverse(s)) : s \in Ascending(Len(t), n)}

A == Str(<<"a">>)
B == Str(<<"b">>)
X == Str(<<"x">>)
Y == Str(<<"y">>)
FILENAME_UPPER == Str(<<"F", "I", "L", "E", "N", "A", "M", "E">>)
FILENAME_MIXED == Str(<<"F", "i", "l", "e", "N", "a", "m", "e">>)
utf_8 == Str(<<"u", "t", "f", "-", "8">>)
iso_8859_1 == Str(<<"i", "s", "o", "-", "8", "8", "5", "9", "-", "1">>)
Iso_8859_1 == Str(<<"I", "s", "o", "-", "8", "8", "5", "9", "-", "1">>)
ISO_8859_15 == Str(<<"I", "S", "O", "-", "8", "8", "5", "9", "-", "1", "5">>)
BOGUS == Str(<<"b", "o", "g", "u", "s">>)
EN == Str(<<"e", "n">>)

\* Octets of extended values, as the header spells them.
Oct_a == [txt |-> Str(<<"a">>), byte |-> 97]
Oct_c == [txt |-> Str(<<"c">>), byte |-> 99]
Oct_slash == [txt |-> Str(<<"%", "2", "F">>), byte |-> 47]
Oct_backslash == [txt |-> Str(<<"%", "5", "c">>), byte |-> 92]
Oct_01 == [txt |-> Str(<<"%", "0", "1">>), byte |-> 1]
Oct_7F == [txt |-> Str(<<"%", "7", "F">>), byte |-> 127]
Oct_9f == [txt |-> Str(<<"%", "9", "f">>), byte |-> 159]
Oct_a0 == [txt |-> Str(<<"%", "a", "0">>), byte |-> 160]
Oct_C2 == [txt |-> Str(<<"%", "C", "2">>), byte |-> 194]
Oct_e2 == [txt |-> Str(<<"%", "e", "2">>), byte |-> 226]
Oct_82 == [txt |-> Str(<<"%", "8", "2">>), byte |-> 130]

(* Duplicate parameter names *)

MaxDupParms == 3

DupParms == {
    Parm(FILENAME, FALSE, TokenValue(A)),
    Parm(FILENAME, FALSE, TokenValue(B)),
    Parm(FILENAME_UPPER, FALSE, TokenValue(B)),
    Parm(FILENAME, TRUE, ExtValue(UTF_8, <<>>, <<Oct_c>>)),
    Parm(FILENAME_MIXED, TRUE, ExtValue(utf_8, <<>>, <<Oct_a>>)),
    Parm(FILENAME, TRUE, ExtValue(<<>>, <<>>, <<Oct_a>>)),
    Parm(X, FALSE, TokenValue(Y)) }

DupInputs == {Input("dup", ATTACHMENT, ps) : ps \in SeqsUpTo(DupParms, MaxDupParms)}

(* Disposition types *)

MaxTypeParms == 2

TypeTypes == {
    INLINE, ATTACHMENT,
    Str(<<"I", "N", "L", "I", "N", "E">>),
    Str(<<"A", "t", "t", "a", "c", "h", "m", "e", "n", "t">>),
    Str(<<"a", "t", "t", "a", "c", "h", "m", "e", "n", "t", "s">>),
    Str(<<"i", "n", "l", "i", "n", "e", "2">>),
    Str(<<"I", "n", "l", "i", "n", "e", "d">>),
    Str(<<"x", "-", "c", "u", "s", "t", "o", "m">>),
    Str(<<"F", "o", "r", "m", "-", "D", "a", "t", "a">>),
    Str(<<"i", "n">>) }

TypeParms == <<
    Parm(FILENAME, FALSE, TokenValue(A)),
    Parm(X, FALSE, QuotedValue(Y)),
    Parm(FILENAME, TRUE, ExtValue(UTF_8, EN, <<Oct_c>>)),
    Parm(FILENAME \o STAR \o Decimal(0), FALSE, TokenValue(B)) >>

TypeInputs ==
    {[Input("type", t, ps) EXCEPT !.semi = s] :
        t \in TypeTypes, ps \in SubSeqsUpTo(TypeParms, MaxTypeParms), s \in BOOLEAN}

(* Filename resolution *)

MaxFnParms == 3

FnTypes == {ATTACHMENT, Str(<<"I", "n", "L", "i", "n", "e">>),
            Str(<<"x", "-", "c", "u", "s", "t", "o", "m">>)}

Segment(i) == FILENAME \o STAR \o Decimal(i)

FnParms == <<
    Parm(FILENAME, TRUE, ExtValue(UTF_8, <<>>, <<Oct_a, Oct_slash>>)),
    Parm(FILENAME, FALSE, QuotedValue(<<>>)),
    Parm(FILENAME, FALSE, QuotedValue(Str(<<"b", "/", "\\", "\\">>))),
    Parm(Segment(0), TRUE, ExtValue(utf_8, <<>>, <<Oct_c, Oct_backslash>>)),
    Parm(Segment(0), FALSE, QuotedValue(<<>>)),
    Parm(Segment(0), FALSE, TokenValue(Str(<<"d">>))),
    Parm(Segment(1), FALSE, TokenValue(Str(<<"e">>))),
    Parm(Segment(1), TRUE, ExtValue(UTF_8, <<>>, <<Oct_slash>>)),
    Parm(Segment(2), FALSE, QuotedValue(Str(<<"g", " ", "h">>))),
    Parm(Segment(3), FALSE, TokenValue(Str(<<"i">>))),
    Parm(FILENAME_UPPER, FALSE, TokenValue(B)),
    Parm(X, FALSE, TokenValue(Y)) >>

FnInputs ==
    {Input("fn", t, ps) : t \in FnTypes, ps \in SubSeqsUpTo(FnParms, MaxFnParms)}

(* Extended values *)

MaxOctets == 2

ExtCharsets == {UTF_8, utf_8, ISO_8859_1, Iso_8859_1, <<>>, BOGUS, ISO_8859_15}

ExtOctets == {Oct_a, Oct_01, Oct_7F, Oct_9f, Oct_a0, Oct_C2, Oct_e2, Oct_82}

\* The parameters around the extended one: none, or x=y before it and
\* filename=b after it.
ExtInputs ==
    {Input("ext", ATTACHMENT,
           IF around
           THEN << Parm(X, FALSE, TokenValue(Y)),
                   Parm(FILENAME, TRUE, ExtValue(cs, lang, os)),
                   Parm(FILENAME, FALSE, TokenValue(B)) >>
           ELSE << Parm(FILENAME, TRUE, ExtValue(cs, lang, os)) >>) :
        cs \in ExtCharsets, lang \in {<<>>, EN},
        os \in SeqsUpTo(ExtOctets, MaxOctets) \ {<<>>}, around \in BOOLEAN}

(* White space *)

MaxGaps == 2

WhiteSpace == {<<SPACE>>, <<TAB>>, <<CR, LF, SPACE>>}

WsParms == {
    << Parm(FILENAME, FALSE, TokenValue(A)) >>,
    << Parm(FILENAME, TRUE, ExtValue(UTF_8, <<>>, <<Oct_a, Oct_slash>>)) >>,
    << Parm(X, FALSE, QuotedValue(Str(<<"y", " ", "z">>))) >> }

\* The gaps of a header of n parameters with white space in at most MaxGaps of them.
GapChoices(n) ==
    {g \in [1..(2 + 5 * n) -> WhiteSpace \cup {<<>>}] :
        Cardinality({i \in 1..(2 + 5 * n) : g[i] # <<>>}) <= MaxGaps}

\* The gap before the "*" of a parameter that has none is not a place of the header.
GapsInUse(in) ==
    \A k \in 1..Len(in.parms) : in.parms[k].ext \/ in.gaps[1 + 5 * (k - 1) + 3] = <<>>

WsInputs ==
    {in \in {[Input("ws", t, ps) EXCEPT !.gaps = g, !.semi = s] :
                 t \in {ATTACHMENT}, ps \in WsParms, g \in GapChoices(1),
                 s \in BOOLEAN} :
        GapsInUse(in)}

(***************************************************************************)
(* The state machine: a header is given, and one of the two entry points   *)
(* is called on it.                                                        *)
(***************************************************************************)

Start(inputs) ==
    /\ input \in inputs
    /\ header = Render(input)
    /\ enforce = FALSE
    /\ pc = "start"
    /\ ret = [raised |-> FALSE]

InitDup == Start(DupInputs)
InitType == Start(TypeInputs)
InitFn == Start(FnInputs)
InitExt == Start(ExtInputs)
InitWs == Start(WsInputs)
Init == Start(DupInputs \cup TypeInputs \cup FnInputs \cup ExtInputs \cup WsInputs)

\* parse(header)
CallParse ==
    /\ pc = "start"
    /\ pc' = "parse"
    /\ ret' = parse(header)
    /\ UNCHANGED <<input, header, enforce>>

\* parse_filename(header, enforce_content_disposition_type)
CallParseFilename ==
    /\ pc = "start"
    /\ \E e \in BOOLEAN :
        /\ enforce' = e
        /\ ret' = parse_filename(header, e)
    /\ pc' = "parse_filename"
    /\ UNCHANGED <<input, header>>

Next == CallParse \/ CallParseFilename

Spec == Init /\ [][Next]_vars
SpecDup == InitDup /\ [][Next]_vars
SpecType == InitType /\ [][Next]_vars
SpecFn == InitFn /\ [][Next]_vars
SpecExt == InitExt /\ [][Next]_vars
SpecWs == InitWs /\ [][Next]_vars

(***************************************************************************)
(* The claims.  Each is stated on the pieces the header was written from   *)
(* (input) and on what the call returned (ret).                            *)
(***************************************************************************)

Called == pc # "start"

\* The parameter list parse returns for the header.
ParsedList == parse(header).params

Present(pl, name) == \E j \in 1..Len(pl) : pl[j].name = name

\* The value of the first parameter of the list that bears the name.
FirstValue(pl, name) ==
    pl[CHOOSE j \in 1..Len(pl) :
          /\ pl[j].name = name
          /\ \A k \in 1..(j - 1) : pl[k].name # name].value

SegmentName(i, ext) == Segment(i) \o (IF ext THEN STAR ELSE <<>>)

SegmentPresent(pl, i) ==
    Present(pl, SegmentName(i, TRUE)) \/ Present(pl, SegmentName(i, FALSE))

\* The value of segment i: the extended form if present, otherwise the plain one.
SegmentValue(pl, i) ==
    IF Present(pl, SegmentName(i, TRUE))
    THEN FirstValue(pl, SegmentName(i, TRUE))
    ELSE FirstValue(pl, SegmentName(i, FALSE))

\* The first index from 1 on for which neither form is present.
FirstGap(pl) ==
    CHOOSE i \in 1..(Len(pl) + 1) :
        /\ ~SegmentPresent(pl, i)
        /\ \A k \in 1..(i - 1) : SegmentPresent(pl, k)

\* The initial value followed by the values of the segments below the gap.
Assembled(pl, initial) ==
    initial \o Concat([i \in 1..(FirstGap(pl) - 1) |-> SegmentValue(pl, i)])

\* Every "/" and "\" replaced by "_", the rest unchanged.
Sanitized(s) ==
    [i \in 1..Len(s) |->
        IF s[i] = Ord("/") \/ s[i] = Ord("\\") THEN Ord("_") ELSE s[i]]

SanitizedOptional(f) == IF f = None THEN None ELSE Some(Sanitized(f[1]))

\* The four names in their order of precedence.
Precedence == << FILENAME \o STAR, FILENAME, Segment(0) \o STAR, Segment(0) >>

\* The parameters a rule applies to: <<r, j>> is parameter j under rule r.
Candidates(pl) ==
    {c \in (1..4) \X (1..Len(pl)) : pl[c[2]].name = Precedence[c[1]]}

\* What rule c[1] resolves from parameter c[2].
RuleValue(pl, c) ==
    IF c[1] <= 2 THEN pl[c[2]].value ELSE Assembled(pl, pl[c[2]].value)

NonEmptyCandidates(pl) == {c \in Candidates(pl) : RuleValue(pl, c) # <<>>}

\* Rule order, then the order of the list.
Before(c, d) == c[1] < d[1] \/ (c[1] = d[1] /\ c[2] < d[2])

FirstOf(S) == CHOOSE c \in S : \A d \in S \ {c} : Before(c, d)

\* The filename before it is sanitized: the value of the first candidate that
\* resolves to a non-empty string; the empty string when there are candidates
\* and all resolve empty; absent when there is none.
ExpectedResolved(pl) ==
    IF NonEmptyCandidates(pl) # {}
    THEN Some(RuleValue(pl, FirstOf(NonEmptyCandidates(pl))))
    ELSE IF Candidates(pl) # {} THEN Some(<<>>) ELSE None

KnownType(type) == lower(type) \in {ATTACHMENT, INLINE}

\* parse_filename returned, and not by the short cut on the disposition type.
Resolving ==
    /\ pc = "parse_filename"
    /\ ~ret.raised
    /\ (enforce => KnownType(input.type))

NamesClash(ps) ==
    \E i, j \in 1..Len(ps) :
        i < j /\ lower(FullName(ps[i])) = lower(FullName(ps[j]))

\* C1: if two parameters of the header have names that are equal after
\* lower-casing (trailing "*" included), parse fails with a ParseError, and so
\* does parse_filename.
C1_DuplicateNamesFail ==
    (Called /\ NamesClash(input.parms)) => ret.raised

RecognizedCharset(cs) == lower(cs) \in {lower(UTF_8), lower(ISO_8859_1)}

\* The parameter list expected of a header whose extended parameters resolve to
\* the value v, or are omitted.
ExpectedParams(ps, omit, v) ==
    LET kept == IF omit THEN SelectSeq(ps, LAMBDA q : ~q.ext) ELSE ps
    IN  [k \in 1..Len(kept) |->
            [name |-> lower(FullName(kept[k])),
             value |-> IF kept[k].ext THEN v ELSE kept[k].val.text]]

\* The one extended parameter of a header of the extended-value family.
TheExtended == input.parms[CHOOSE k \in 1..Len(input.parms) : input.parms[k].ext]

OtherFilename ==
    \E k \in 1..Len(input.parms) :
        ~input.parms[k].ext /\ lower(input.parms[k].name) = FILENAME

\* C2: an extended parameter whose charset is not recognized, empty or an
\* unrecognized token alike, does not make parse fail: that parameter is omitted
\* and the others are returned, and parse_filename returns None when there is
\* no other filename parameter.
C2_UnrecognizedCharsetSkipped ==
    (Called /\ input.fam = "ext" /\ ~RecognizedCharset(TheExtended.val.charset)) =>
        /\ ~ret.raised
        /\ pc = "parse" => ret.params = ExpectedParams(input.parms, TRUE, <<>>)
        /\ (pc = "parse_filename" /\ ~OtherFilename) => ret.filename = None

\* C3: parse_filename never returns the empty string: the result of a header
\* that parses is None or a non-empty string.
C3_NeverEmptyString ==
    (pc = "parse_filename" /\ ~ret.raised) =>
        (ret.filename = None \/ ret.filename[1] # <<>>)

\* The highest rule of the precedence that has a parameter in the list.
TopRule(pl) == CHOOSE r \in 1..4 :
    /\ \E c \in Candidates(pl) : c[1] = r
    /\ \A c \in Candidates(pl) : c[1] >= r

\* C4 as stated: the highest-precedence name present alone determines the
\* result, whatever its value; a lower rule is never consulted.
C4_HighestPresentAloneDecides ==
    Resolving =>
        IF Candidates(ParsedList) = {} THEN ret.filename = None
        ELSE \E c \in Candidates(ParsedList) :
                /\ c[1] = TopRule(ParsedList)
                /\ ret.filename \in {None, Some(Sanitized(RuleValue(ParsedList, c)))}

\* C4, amended: the rules are tried in the order filename*, filename,
\* filename*0*, filename*0, and the first parameter whose rule resolves to a
\* non-empty string determines the result; a lower rule is consulted only when
\* every parameter of the higher rules is absent or resolves to the empty
\* string.  With no parameter of the four names the result is None, and with
\* only empty resolutions it is empty.
C4_FirstNonEmptyDecides ==
    Resolving => ret.filename = SanitizedOptional(ExpectedResolved(ParsedList))

\* A higher rule has a parameter that resolves empty, and a lower rule decided.
C4_LowerRuleConsulted ==
    /\ Resolving
    /\ NonEmptyCandidates(ParsedList) # {}
    /\ \E c \in Candidates(ParsedList) :
          c[1] < FirstOf(NonEmptyCandidates(ParsedList))[1]
    /\ ret.filename # None
    /\ ret.filename[1] # <<>>

\* Resolution starts from filename*0* or filename*0: no parameter named
\* filename* or filename has a non-empty value, and a segment 0 is present.
StartsFromSegment0(pl) ==
    /\ \A c \in Candidates(pl) : c[1] <= 2 => pl[c[2]].value = <<>>
    /\ SegmentPresent(pl, 0)

\* The initial segment: filename*0* if present and its assembly is not empty,
\* otherwise filename*0.
InitialSegment(pl) ==
    IF /\ Present(pl, SegmentName(0, TRUE))
       /\ \/ Assembled(pl, FirstValue(pl, SegmentName(0, TRUE))) # <<>>
          \/ ~Present(pl, SegmentName(0, FALSE))
    THEN FirstValue(pl, SegmentName(0, TRUE))
    ELSE FirstValue(pl, SegmentName(0, FALSE))

\* C5: when resolution starts from filename*0* or filename*0, the result is the
\* initial segment's value followed by the values of segments 1, 2, 3, ... in
\* increasing order, filename*{i}* taken before filename*{i}, one value for each
\* index, up to the first index for which neither form is present; no segment
\* above that gap is included.
C5_ContinuationAssembly ==
    (Resolving /\ StartsFromSegment0(ParsedList)) =>
        LET pl == ParsedList
            parts == [i \in 0..(FirstGap(pl) - 1) |->
                         IF i = 0 THEN InitialSegment(pl) ELSE SegmentValue(pl, i)]
            offset(i) == LET Sum[k \in 0..i] ==
                                 IF k = 0 THEN 0 ELSE Sum[k - 1] + Len(parts[k - 1])
                         IN  Sum[i]
        IN  /\ ret.filename # None
            /\ Len(ret.filename[1]) = offset(FirstGap(pl))
            /\ \A i \in 0..(FirstGap(pl) - 1) :
                  SubSeq(ret.filename[1], offset(i) + 1, offset(i + 1))
                      = Sanitized(parts[i])

\* Segment 1 is present in both forms, and a segment lies above the gap.
C5_BothFormsOfASegment ==
    /\ Resolving
    /\ StartsFromSegment0(ParsedList)
    /\ Present(ParsedList, SegmentName(1, TRUE))
    /\ Present(ParsedList, SegmentName(1, FALSE))
    /\ ret.filename # None

\* C6: a header whose disposition type is a valid token parses, and the type
\* returned is that whole token lower-cased, also when the token merely begins
\* with "inline" or "attachment"; "inline" and "attachment" in any letter case
\* give the lower-case literal.
C6_TypeTokenLowerCased ==
    (pc = "parse" /\ input.fam = "type") =>
        (~ret.raised /\ ret.type = lower(input.type))

\* C7: a result of parse_filename that is not None contains neither "/" nor
\* "\": each occurrence of either in the resolved filename is replaced by "_",
\* and every other character is unchanged and in its place.
C7_NoPathSeparators ==
    (pc = "parse_filename" /\ ~ret.raised /\ ret.filename # None) =>
        LET unsafe == ExpectedResolved(ParsedList)
            safe == ret.filename[1]
        IN  /\ unsafe # None
            /\ Len(safe) = Len(unsafe[1])
            /\ \A i \in 1..Len(safe) :
                  /\ safe[i] \notin {Ord("/"), Ord("\\")}
                  /\ unsafe[1][i] \in {Ord("/"), Ord("\\")} => safe[i] = Ord("_")
                  /\ unsafe[1][i] \notin {Ord("/"), Ord("\\")} => safe[i] = unsafe[1][i]

\* The resolved filename has a "/" and a "\", and a filename was returned.
C7_SeparatorsReplaced ==
    /\ pc = "parse_filename"
    /\ ~ret.raised
    /\ ret.filename # None
    /\ ExpectedResolved(ParsedList) # None
    /\ \E i \in 1..Len(ExpectedResolved(ParsedList)[1]) :
          ExpectedResolved(ParsedList)[1][i] = Ord("/")
    /\ \E i \in 1..Len(ExpectedResolved(ParsedList)[1]) :
          ExpectedResolved(ParsedList)[1][i] = Ord("\\")

\* The header of the same parameters under another disposition type.
WithType(type) == Render([input EXCEPT !.type = type])

\* C8: with the flag set and a disposition type that is neither "attachment"
\* nor "inline", parse_filename returns None whatever the parameters; with the
\* flag unset, or one of the two types in any letter case, the disposition type
\* has no effect on the filename.
C8_EnforceKnownType ==
    (pc = "parse_filename" /\ input.fam = "fn" /\ ~ret.raised) =>
        IF enforce /\ ~KnownType(input.type)
        THEN ret.filename = None
        ELSE \A type \in FnTypes :
                ret.filename = parse_filename(WithType(type), FALSE).filename

\* The flag is set, the type is an extension type, and a filename is present.
C8_ExtensionTypeEnforced ==
    /\ pc = "parse_filename"
    /\ ~ret.raised
    /\ enforce
    /\ ~KnownType(input.type)
    /\ NonEmptyCandidates(ParsedList) # {}
    /\ ret.filename = None

SomeGap == \E i \in 1..Len(input.gaps) : input.gaps[i] # <<>>

\* The gap between the name of parameter k and its "*".
StarGap(k) == 1 + 5 * (k - 1) + 3

StarGapFilled == \E k \in 1..Len(input.parms) : input.gaps[StarGap(k)] # <<>>

\* The header of the same pieces with nothing in the gaps.
WithoutGaps == Render([input EXCEPT !.gaps = NoGaps(Len(input.parms))])

\* C9 as stated: every header with white space outside a quoted string, leading,
\* trailing or between the type, ";", a name, "=" and a value, fails with a
\* ParseError.
C9_NoWhiteSpaceTolerated ==
    (Called /\ input.fam = "ws" /\ SomeGap) => ret.raised

\* C9, amended: white space (space, tab, CR, LF) leading or trailing the header
\* or between the type, ";", a name, "=" and a value is skipped: the header
\* gives the result of the same header without it.  White space between the
\* name of an extended parameter and its "*" fails with a ParseError.
C9_WhiteSpaceSkipped ==
    (Called /\ input.fam = "ws") =>
        IF StarGapFilled THEN ret.raised
        ELSE /\ ~ret.raised
             /\ pc = "parse" => ret = parse(WithoutGaps)
             /\ pc = "parse_filename" => ret = parse_filename(WithoutGaps, enforce)

\* White space after the ";" and before the "=", and the header parsed.
C9_SpacedHeaderParses ==
    /\ pc = "parse"
    /\ input.fam = "ws"
    /\ input.gaps[3] # <<>>
    /\ input.gaps[5] # <<>>
    /\ ~ret.raised
    /\ Len(ret.params) = 1

\* The code points 0x00-0x1F and 0x7F-0x9F.
ControlCodePoints == (0..31) \cup (127..159)

\* The UTF-8 encoding of a code point; none for a surrogate or a number that is
\* no code point.
Utf8Encode(cp) ==
    IF cp < 0 \/ cp > 1114111 \/ (cp >= 55296 /\ cp <= 57343) THEN <<>>
    ELSE IF cp < 128 THEN <<cp>>
    ELSE IF cp < 2048 THEN <<192 + (cp \div 64), 128 + (cp % 64)>>
    ELSE IF cp < 65536
    THEN <<224 + (cp \div 4096), 128 + ((cp \div 64) % 64), 128 + (cp % 64)>>
    ELSE <<240 + (cp \div 262144), 128 + ((cp \div 4096) % 64),
           128 + ((cp \div 64) % 64), 128 + (cp % 64)>>

\* The number that n octets would encode, were they the encoding of a code point.
CodePointOf(b) ==
    IF Len(b) = 1 THEN b[1]
    ELSE IF Len(b) = 2 THEN (b[1] - 192) * 64 + (b[2] - 128)
    ELSE IF Len(b) = 3 THEN (b[1] - 224) * 4096 + (b[2] - 128) * 64 + (b[3] - 128)
    ELSE (b[1] - 240) * 262144 + (b[2] - 128) * 4096 + (b[3] - 128) * 64 + (b[4] - 128)

\* The lengths n for which the first n octets are the encoding of a code point.
EncodedPrefixes(b) ==
    {n \in 1..(IF Len(b) < 4 THEN Len(b) ELSE 4) :
        Utf8Encode(CodePointOf(SubSeq(b, 1, n))) = SubSeq(b, 1, n)}

\* The code points the octets encode, if they are valid UTF-8: a concatenation
\* of encodings of code points.
RECURSIVE Utf8Decoding(_)
Utf8Decoding(b) ==
    IF b = <<>> THEN [ok |-> TRUE, str |-> <<>>]
    ELSE IF EncodedPrefixes(b) = {} THEN [ok |-> FALSE, str |-> <<>>]
    ELSE LET n == CHOOSE n \in EncodedPrefixes(b) : TRUE
             rest == Utf8Decoding(SubSeq(b, n + 1, Len(b)))
         IN  [ok |-> rest.ok,
              str |-> IF rest.ok THEN <<CodePointOf(SubSeq(b, 1, n))>> \o rest.str
                      ELSE <<>>]

\* C10: an extended parameter declared ISO-8859-1 (any letter case) makes parse
\* fail if and only if its percent-decoded value has a code point in 0x00-0x1F
\* or 0x7F-0x9F, and then nothing is returned; under UTF-8 there is no such
\* check, and the value fails only when its octets are not valid UTF-8.
C10_ControlCharactersRejected ==
    (Called /\ input.fam = "ext" /\ RecognizedCharset(TheExtended.val.charset)) =>
        LET octets == TheExtended.val.octets
            latin == lower(TheExtended.val.charset) = lower(ISO_8859_1)
            decoded == IF latin THEN [ok |-> TRUE, str |-> octets]
                       ELSE Utf8Decoding(octets)
        IN  /\ latin =>
                (ret.raised <=> \E i \in 1..Len(octets) : octets[i] \in ControlCodePoints)
            /\ ~latin => (ret.raised <=> ~decoded.ok)
            /\ (pc = "parse" /\ ~ret.raised) =>
                  ret.params = ExpectedParams(input.parms, FALSE, decoded.str)

\* A value of charset "Iso-8859-1" with the octet 0x9F was rejected.
C10_LatinControlRejected ==
    /\ pc = "parse"
    /\ input.fam = "ext"
    /\ TheExtended.val.charset = Iso_8859_1
    /\ \E i \in 1..Len(TheExtended.val.octets) : TheExtended.val.octets[i] = 159
    /\ ret.raised

====
